---- MODULE Spec2Model ----
(***************************************************************************)
(* 23andMe genotyping data extraction                                      *)
(* (sources/twenty_three_and_me/__init__.py).                              *)
(*                                                                         *)
(* One run of TwentyThreeAndMeSource.create_files: clean_raw_23andme over  *)
(* a line stream, vcf_from_raw_23andme over the cleaned stream, the two    *)
(* artifacts appended to temp_files; then should_update of a later task.   *)
(* Text is modelled character by character: a line is a sequence of        *)
(* one-character strings, terminator included.                             *)
(***************************************************************************)
EXTENDS Integers, Sequences, FiniteSets, TLC

\* Largest number of input lines after the first line.
MaxLines == 2

(***************************************************************************)
(* Characters and strings                                                  *)
(***************************************************************************)
Digits == {"0", "1", "2", "3", "4", "5", "6", "7", "8", "9"}

Upper == {"A", "B", "C", "D", "E", "F", "G", "H", "I", "J", "K", "L", "M",
          "N", "O", "P", "Q", "R", "S", "T", "U", "V", "W", "X", "Y", "Z"}

Lower == {"a", "b", "c", "d", "e", "f", "g", "h", "i", "j", "k", "l", "m",
          "n", "o", "p", "q", "r", "s", "t", "u", "v", "w", "x", "y", "z"}

\* str.rstrip() with no argument strips these.
Whitespace == {" ", "\t", "\n", "\r", "\f"}

\* The character of s at position i (1-based), "" past the end.
At(s, i) == IF i >= 1 /\ i <= Len(s) THEN s[i] ELSE ""

StartsWith(s, p) == Len(s) >= Len(p) /\ SubSeq(s, 1, Len(p)) = p

DigitVal(c) ==
  CASE c = "0" -> 0 [] c = "1" -> 1 [] c = "2" -> 2 [] c = "3" -> 3
    [] c = "4" -> 4 [] c = "5" -> 5 [] c = "6" -> 6 [] c = "7" -> 7
    [] c = "8" -> 8 [] c = "9" -> 9

DigitChar(n) ==
  CASE n = 0 -> "0" [] n = 1 -> "1" [] n = 2 -> "2" [] n = 3 -> "3"
    [] n = 4 -> "4" [] n = 5 -> "5" [] n = 6 -> "6" [] n = 7 -> "7"
    [] n = 8 -> "8" [] n = 9 -> "9"

\* str.rstrip()
RECURSIVE RStrip(_)
RStrip(s) ==
  IF s # <<>> /\ s[Len(s)] \in Whitespace
  THEN RStrip(SubSeq(s, 1, Len(s) - 1))
  ELSE s

\* The k-th smallest element of a set of numbers.
NthSmallest(S, k) == CHOOSE e \in S : Cardinality({x \in S : x <= e}) = k

\* str.split(sep) for a one-character separator: the fields between the
\* separators, empty ones kept.
Split(s, sep) ==
  LET seps == {i \in 1..Len(s) : s[i] = sep}
      n == Cardinality(seps)
  IN [k \in 1..(n + 1) |->
        SubSeq(s, IF k = 1 THEN 1 ELSE NthSmallest(seps, k - 1) + 1,
                  IF k = n + 1 THEN Len(s) ELSE NthSmallest(seps, k) - 1)]

\* sep.join(parts)
RECURSIVE Join(_, _)
Join(parts, sep) ==
  IF parts = <<>> THEN <<>>
  ELSE IF Len(parts) = 1 THEN parts[1]
  ELSE parts[1] \o <<sep>> \o Join(Tail(parts), sep)

\* The lines a text stream yields when iterated: cut after every "\n", a last
\* line without one included.
Lines(s) ==
  LET ends == {i \in 1..Len(s) : s[i] = "\n" \/ i = Len(s)}
  IN [k \in 1..Cardinality(ends) |->
        SubSeq(s, IF k = 1 THEN 1 ELSE NthSmallest(ends, k - 1) + 1,
                  NthSmallest(ends, k))]

\* str.splitlines(): cut at "\n", "\r\n" and "\r", terminators dropped.
RECURSIVE SplitLinesFrom(_, _, _)
SplitLinesFrom(s, i, cur) ==
  IF i > Len(s) THEN (IF cur = <<>> THEN <<>> ELSE <<cur>>)
  ELSE IF s[i] = "\r" /\ At(s, i + 1) = "\n"
       THEN <<cur>> \o SplitLinesFrom(s, i + 2, <<>>)
  ELSE IF s[i] \in {"\n", "\r"}
       THEN <<cur>> \o SplitLinesFrom(s, i + 1, <<>>)
  ELSE SplitLinesFrom(s, i + 1, Append(cur, s[i]))

SplitLines(s) == SplitLinesFrom(s, 1, <<>>)

\* The first position at or after i whose character is not in set.
RECURSIVE SkipWhile(_, _, _)
SkipWhile(s, i, set) ==
  IF i <= Len(s) /\ s[i] \in set THEN SkipWhile(s, i + 1, set) ELSE i

(***************************************************************************)
(* clean_raw_23andme: the dateline                                         *)
(***************************************************************************)
\* re_datetime_string, position by position: the pattern has a fixed length.
DateTimeLen == 24

\* DateTimeClass with any digit taken as the first character of the day.
DateTimeClassAnyDay(i) ==
  CASE i \in {1, 5} -> Upper
    [] i \in {2, 3, 6, 7} -> Lower
    [] i \in {4, 8, 11, 20} -> {" "}
    [] i = 9 -> {" "} \cup Digits
    [] i \in {10, 12, 13, 15, 16, 18, 19, 22, 23, 24} -> Digits
    [] i \in {14, 17} -> {":"}
    [] i = 21 -> {"2"}

DateTimeClass(i) ==
  CASE i \in {1, 5} -> Upper
    [] i \in {2, 3, 6, 7} -> Lower
    [] i \in {4, 8, 11, 20} -> {" "}
    [] i = 9 -> {" "} \cup (Digits \ {"0"})
    [] i \in {10, 12, 13, 15, 16, 18, 19, 22, 23, 24} -> Digits
    [] i \in {14, 17} -> {":"}
    [] i = 21 -> {"2"}

DateTimeAt(s, k) ==
  /\ k + DateTimeLen <= Len(s)
  /\ \A i \in 1..DateTimeLen : s[k + i] \in DateTimeClass(i)

\* re.search(re_datetime_string, dateline): whether there is a match.
DateTimeSearch(s) == \E k \in 0..Len(s) : DateTimeAt(s, k)

\* re.search(...).groups()[0]: the leftmost match.
DateTimeString(s) ==
  LET k == CHOOSE k \in 0..Len(s) :
             DateTimeAt(s, k) /\ \A j \in 0..(k - 1) : ~DateTimeAt(s, j)
  IN SubSeq(s, k + 1, k + DateTimeLen)

\* re.sub(re_norm_day, r' 0\1', datetime_string): in a string of the form above
\* two spaces in a row occur only before a space-padded day.
NormDay(w) ==
  IF /\ w[7] \in Lower /\ w[8] = " " /\ w[9] = " "
     /\ w[10] \in (Digits \ {"0"})
     /\ w[11] = " " /\ w[12] \in Digits /\ w[13] \in Digits /\ w[14] = ":"
     /\ w[15] \in Digits /\ w[16] \in Digits
  THEN [w EXCEPT ![9] = "0"]
  ELSE w

WeekdayNames == << <<"M", "o", "n">>, <<"T", "u", "e">>, <<"W", "e", "d">>,
                   <<"T", "h", "u">>, <<"F", "r", "i">>, <<"S", "a", "t">>,
                   <<"S", "u", "n">> >>

MonthNames == << <<"J", "a", "n">>, <<"F", "e", "b">>, <<"M", "a", "r">>,
                 <<"A", "p", "r">>, <<"M", "a", "y">>, <<"J", "u", "n">>,
                 <<"J", "u", "l">>, <<"A", "u", "g">>, <<"S", "e", "p">>,
                 <<"O", "c", "t">>, <<"N", "o", "v">>, <<"D", "e", "c">> >>

IndexOf(seq, x) == CHOOSE i \in 1..Len(seq) : seq[i] = x

Num2(w, i) == 10 * DigitVal(w[i]) + DigitVal(w[i + 1])

Num4(w, i) == 100 * Num2(w, i) + Num2(w, i + 2)

\* The day that %d reads from the two day characters; 0 when it reads none.
DayNum(w) == IF w[9] = " " THEN DigitVal(w[10]) ELSE Num2(w, 9)

IsLeap(y) == y % 4 = 0 /\ (y % 100 # 0 \/ y % 400 = 0)

DaysInMonth(y, m) ==
  IF m = 2 THEN (IF IsLeap(y) THEN 29 ELSE 28)
  ELSE IF m \in {4, 6, 9, 11} THEN 30 ELSE 31

RECURSIVE DaysBeforeMonth(_, _)
DaysBeforeMonth(y, m) ==
  IF m = 1 THEN 0 ELSE DaysBeforeMonth(y, m - 1) + DaysInMonth(y, m - 1)

\* date.toordinal(): 0001-01-01 is day 1.
Ordinal(y, m, d) ==
  (y - 1) * 365 + ((y - 1) \div 4) - ((y - 1) \div 100) + ((y - 1) \div 400)
    + DaysBeforeMonth(y, m) + d

\* date.weekday() + 1: Monday is 1.
Weekday(y, m, d) == ((Ordinal(y, m, d) + 6) % 7) + 1

\* datetime.strptime(w, '%a %b %d %H:%M:%S %Y') on a normalised string of the
\* form above: whether it parses to a date and time that exist.  It raises
\* ValueError otherwise.
StrptimeOk(w) ==
  /\ \E i \in 1..7 : WeekdayNames[i] = SubSeq(w, 1, 3)
  /\ \E i \in 1..12 : MonthNames[i] = SubSeq(w, 5, 7)
  /\ DayNum(w) >= 1
  /\ DayNum(w) <= DaysInMonth(Num4(w, 21), IndexOf(MonthNames, SubSeq(w, 5, 7)))
  /\ Num2(w, 12) <= 23
  /\ Num2(w, 15) <= 59
  /\ Num2(w, 18) <= 59

\* datetime_23andme.strftime('%a %b %d %H:%M:%S %Y'): the weekday is the one of
\* the parsed date, every number is printed zero-padded.
Strftime(w) ==
  LET y == Num4(w, 21)
      m == IndexOf(MonthNames, SubSeq(w, 5, 7))
      d == DayNum(w)
  IN WeekdayNames[Weekday(y, m, d)] \o <<" ">> \o MonthNames[m] \o <<" ">>
       \o <<DigitChar(d \div 10), DigitChar(d % 10)>> \o <<" ">>
       \o SubSeq(w, 12, 19) \o <<" ">> \o SubSeq(w, 21, 24)

\* '# This data file generated by 23andMe at: '
DatelinePrefix ==
  <<"#", " ", "T", "h", "i", "s", " ", "d", "a", "t", "a", " ", "f", "i", "l",
    "e", " ", "g", "e", "n", "e", "r", "a", "t", "e", "d", " ", "b", "y", " ",
    "2", "3", "a", "n", "d", "M", "e", " ", "a", "t", ":", " ">>

\* The text written for a dateline whose date and time parse.
DatelineOut(dateline) ==
  DatelinePrefix \o Strftime(NormDay(DateTimeString(dateline))) \o <<"\r", "\n">>

(***************************************************************************)
(* clean_raw_23andme: the header block and the body                        *)
(***************************************************************************)
\* header-v1.txt and header-v2.txt, read whole.
header_v1 == <<"#", "a", "\n">>

header_v2 == <<"#", "b", "\n">>

\* HeaderConforms with the second template forgotten.
HeaderConformsV1Only(header_lines) ==
  SplitLines(header_lines) = SplitLines(header_v1)

HeaderConforms(header_lines) ==
  \/ SplitLines(header_lines) = SplitLines(header_v1)
  \/ SplitLines(header_lines) = SplitLines(header_v2)

ChromFirst == (Digits \ {"0"}) \cup {"X", "Y", "M"}

ChromSecond == Digits \cup {"T"}

CallChars == {"A", "C", "G", "T", "-", "I", "D"}

\* re.match(r'(rs|i)[0-9]+\t[1-9XYM][0-9T]?\t[0-9]+\t[ACGT\-ID][ACGT\-ID]?', s):
\* a match of a prefix of s.  a..f are the positions the match reaches.
BodyLineMatches(s) ==
  LET a == IF StartsWith(s, <<"r", "s">>) THEN 3
           ELSE IF At(s, 1) = "i" THEN 2 ELSE 0
      b == SkipWhile(s, a, Digits)
      c == b + 1
      d == IF At(s, c + 1) \in ChromSecond THEN c + 2 ELSE c + 1
      e == d + 1
      f == SkipWhile(s, e, Digits)
  IN /\ a # 0
     /\ b > a
     /\ At(s, b) = "\t"
     /\ At(s, c) \in ChromFirst
     /\ At(s, d) = "\t"
     /\ f > e
     /\ At(s, f) = "\t"
     /\ At(s, f + 1) \in CallChars

SentryHeader == "23andMe header did not conform to expected format."

SentryBody == "23andMe body did not conform to expected format."

(***************************************************************************)
(* vcf_from_raw_23andme                                                    *)
(***************************************************************************)
\* reference_b37.txt: rows of chromosome, position, reference base.
ReferenceRows ==
  << << <<"1">>, <<"5">>, <<"A">> >>,
     << <<"M", "T">>, <<"5">>, <<"C">> >> >>

\* RefRowsFor with the position ignored.
RefRowsForChrom(chrom, pos) ==
  {i \in 1..Len(ReferenceRows) : ReferenceRows[i][1] = chrom}

\* The rows of the table for (chrom, pos); the loop keeps the last one.
RefRowsFor(chrom, pos) ==
  {i \in 1..Len(ReferenceRows) :
     ReferenceRows[i][1] = chrom /\ ReferenceRows[i][2] = pos}

\* reference[chrom][pos] does not raise KeyError.
RefHas(chrom, pos) == RefRowsFor(chrom, pos) # {}

\* reference[chrom][pos], <<>> where it raises KeyError.
RefBase(chrom, pos) ==
  IF RefHas(chrom, pos)
  THEN ReferenceRows[CHOOSE i \in RefRowsFor(chrom, pos) :
                       \A j \in RefRowsFor(chrom, pos) : j <= i][3]
  ELSE <<>>

Dot == <<".">>

\* vcf_header(...): the lines before the records.
VcfHeader ==
  <<"##fileformat=VCFv4.1",
    "##fileDate=<today>",
    "##source=open_humans_data_processing.twenty_three_and_me",
    "##reference=http://hgdownload-test.cse.ucsc.edu/goldenPath/hg19/bigZips/hg19.2bit",
    "##FORMAT=<ID=GT,Number=1,Type=String,Description=\"Genotype\">",
    "#CHROM\tPOS\tID\tREF\tALT\tQUAL\tFILTER\tINFO\tFORMAT\t23ANDME_DATA">>

\* line.rstrip().split('\t')
LineData(line) == Split(RStrip(line), "\t")

\* re.match(r'^[ACGT]{1,2}$', call)
CalledBases(call) ==
  /\ Len(call) \in {1, 2}
  /\ \A i \in 1..Len(call) : call[i] \in {"A", "C", "G", "T"}

InSeq(seq, x) == \E i \in 1..Len(seq) : seq[i] = x

\* AltAllelesFrom without the test for an allele already listed.
RECURSIVE AltAllelesRepeated(_, _, _, _)
AltAllelesRepeated(call, i, ref, alt_alleles) ==
  IF i > Len(call) THEN alt_alleles
  ELSE IF <<call[i]>> # ref
       THEN AltAllelesRepeated(call, i + 1, ref, Append(alt_alleles, <<call[i]>>))
       ELSE AltAllelesRepeated(call, i + 1, ref, alt_alleles)

\* The loop over the call: each allele that is not the reference base and is
\* not yet listed is appended.
RECURSIVE AltAllelesFrom(_, _, _, _)
AltAllelesFrom(call, i, ref, alt_alleles) ==
  IF i > Len(call) THEN alt_alleles
  ELSE IF <<call[i]>> # ref /\ ~InSeq(alt_alleles, <<call[i]>>)
       THEN AltAllelesFrom(call, i + 1, ref, Append(alt_alleles, <<call[i]>>))
       ELSE AltAllelesFrom(call, i + 1, ref, alt_alleles)

AltAlleles(call, ref) == AltAllelesFrom(call, 1, ref, <<>>)

\* str(all_alleles.index(x)): the first place of x, counted from 0.
AlleleIndex(all_alleles, x) ==
  <<DigitChar((CHOOSE i \in 1..Len(all_alleles) :
                 all_alleles[i] = x /\ \A j \in 1..(i - 1) : all_alleles[j] # x) - 1)>>

GenotypeIndexed(call, ref, alt_alleles) ==
  Join([i \in 1..Len(call) |-> AlleleIndex(<<ref>> \o alt_alleles, <<call[i]>>)], "/")

\* A line of the cleaned stream that the loop skips.
VcfSkips(line) ==
  \/ StartsWith(line, <<"#">>)
  \/ ~CalledBases(LineData(line)[4])
  \/ ~RefHas(LineData(line)[2], LineData(line)[3])

\* data[3] raises IndexError on a line with fewer than four fields.
VcfRaises(line) == ~StartsWith(line, <<"#">>) /\ Len(LineData(line)) < 4

\* The fields of the record of a line, in the order of VCF_FIELDS.
VcfData(line) ==
  LET data == LineData(line)
      ref == RefBase(data[2], data[3])
      alt_alleles == AltAlleles(data[4], ref)
  IN << IF data[2] = <<"M", "T">> THEN <<"M">> ELSE data[2],
        data[3],
        IF StartsWith(data[1], <<"r", "s">>) THEN data[1] ELSE Dot,
        ref,
        IF alt_alleles # <<>> THEN Join(alt_alleles, ",") ELSE Dot,
        Dot,
        Dot,
        IF alt_alleles # <<>> THEN Dot ELSE <<"E", "N", "D", "=">> \o data[3],
        <<"G", "T">>,
        GenotypeIndexed(data[4], ref, alt_alleles) >>

\* VcfRecordsFrom with each record written before the ones of earlier lines.
RECURSIVE VcfRecordsReversed(_, _)
VcfRecordsReversed(lines, i) ==
  IF i > Len(lines) THEN <<>>
  ELSE IF VcfSkips(lines[i]) THEN VcfRecordsReversed(lines, i + 1)
  ELSE VcfRecordsReversed(lines, i + 1)
         \o <<[src |-> i, text |-> "", fields |-> VcfData(lines[i])]>>

\* What the loop over the cleaned lines writes; src is the number of the line
\* a record comes from.
RECURSIVE VcfRecordsFrom(_, _)
VcfRecordsFrom(lines, i) ==
  IF i > Len(lines) THEN <<>>
  ELSE IF VcfSkips(lines[i]) THEN VcfRecordsFrom(lines, i + 1)
  ELSE <<[src |-> i, text |-> "", fields |-> VcfData(lines[i])]>>
         \o VcfRecordsFrom(lines, i + 1)

vcf_from_raw_23andme(raw_23andme) ==
  [i \in 1..Len(VcfHeader) |-> [src |-> 0, text |-> VcfHeader[i], fields |-> <<>>]]
    \o VcfRecordsFrom(Lines(raw_23andme), 1)

(***************************************************************************)
(* The fingerprint of the source location                                  *)
(***************************************************************************)
\* self.file_url when there is none.
NoUrl == ""

Urls == {"http://h/p1", "http://h/p2", "http://g/p1?v=2"}

\* urlparse.urlparse(url).path
UrlPath(url) ==
  CASE url = "http://h/p1" -> "/p1"
    [] url = "http://h/p2" -> "/p2"
    [] url = "http://g/p1?v=2" -> "/p1"

\* What bcrypt.gensalt() can return: a salt is one element, a hash is the salt
\* followed by the digest.
Salts == {<<"salt1">>, <<"salt2">>}

\* bcrypt.hashpw(password, salt) reads the salt off the front of its second
\* argument and raises ValueError when there is none.
SaltValid(salt) == Len(salt) >= 1 /\ <<salt[1]>> \in Salts

HashPw(password, salt) == <<salt[1], <<"digest", password, salt[1]>> >>

\* SameOrigFile with no source location taken to match an empty stored hash.
SameOrigFileEmptyMatches(url, orig_file_hash) ==
  IF url = NoUrl THEN (IF orig_file_hash = <<>> THEN "True" ELSE "False")
  ELSE IF ~SaltValid(orig_file_hash) THEN "ValueError"
  ELSE IF orig_file_hash = HashPw(UrlPath(url), orig_file_hash) THEN "True"
  ELSE "False"

\* same_orig_file(orig_file_hash) for a task whose file_url is url.
SameOrigFile(url, orig_file_hash) ==
  IF url = NoUrl THEN "False"
  ELSE IF ~SaltValid(orig_file_hash) THEN "ValueError"
  ELSE IF orig_file_hash = HashPw(UrlPath(url), orig_file_hash) THEN "True"
  ELSE "False"

\* should_update(files) for a task whose file_url is url: "True", "False", or
\* the exception that leaves it.
RECURSIVE ShouldUpdateFrom(_, _, _)
ShouldUpdateFrom(files, i, url) ==
  IF i > Len(files) THEN "False"
  ELSE IF "metadata" \notin DOMAIN files[i] THEN "True"
  ELSE IF "orig_file_hash" \notin DOMAIN files[i].metadata THEN "True"
  ELSE LET same == SameOrigFile(url, files[i].metadata.orig_file_hash)
       IN IF same = "False" THEN "True"
          ELSE IF same = "ValueError" THEN "ValueError"
          ELSE ShouldUpdateFrom(files, i + 1, url)

should_update(files, url) ==
  IF files = <<>> THEN "True" ELSE ShouldUpdateFrom(files, 1, url)

\* The entry create_files appends for the original-format file.
RawArtifact(hash) ==
  [temp_filename |-> "23andMe-genotyping.txt",
   metadata |-> [description |-> "23andMe full genotyping data, original format",
                 tags |-> <<"23andMe", "genotyping">>,
                 orig_file_hash |-> hash,
                 creation_date |-> "now"]]

\* The entry create_files appends for the VCF file.
VcfArtifact(hash) ==
  [temp_filename |-> "23andMe-genotyping.vcf.bz2",
   metadata |-> [description |-> "23andMe full genotyping data, VCF format",
                 tags |-> <<"23andMe", "genotyping", "vcf">>,
                 orig_file_hash |-> hash,
                 creation_date |-> "now"]]

\* A file whose metadata records no orig_file_hash.
UnhashedArtifact ==
  [temp_filename |-> "23andMe-genotyping.txt",
   metadata |-> [description |-> "23andMe full genotyping data, original format"]]

(***************************************************************************)
(* The input streams the model runs on                                     *)
(***************************************************************************)
DateLine(weekday, month, day) ==
  <<"#", " ">> \o weekday \o <<" ">> \o month \o <<" ">> \o day
    \o <<" ", "0", "1", ":", "0", "2", ":", "0", "3", " ", "2", "0", "1", "4", "\n">>

BodyLine(id, chrom, pos, call) == Join(<<id, chrom, pos, call>>, "\t") \o <<"\n">>

Sun == <<"S", "u", "n">>

Mon == <<"M", "o", "n">>

Jan == <<"J", "a", "n">>

Feb == <<"F", "e", "b">>

\* First lines: a space-padded day, a two-digit day under the wrong weekday, a
\* zero-padded day, a date that does not exist, and a line without a date.
FirstLines ==
  { DateLine(Sun, Jan, <<" ", "5">>),
    DateLine(Mon, Jan, <<"1", "5">>),
    DateLine(Sun, Jan, <<"0", "5">>),
    DateLine(Sun, Feb, <<"3", "0">>),
    <<"#", "a", "\n">> }

HeaderPool ==
  { <<"#", "a", "\n">>, <<"#", "b", "\r", "\n">>, <<"#", "x", "\n">> }

Rs1 == <<"r", "s", "1">>

BodyPool ==
  { BodyLine(Rs1, <<"1">>, <<"5">>, <<"A", "G">>),
    BodyLine(Rs1, <<"1">>, <<"5">>, <<"G", "G">>),
    BodyLine(Rs1, <<"1">>, <<"5">>, <<"T", "G">>),
    BodyLine(<<"i", "7">>, <<"M", "T">>, <<"5">>, <<"C", "C">>),
    BodyLine(Rs1, <<"1">>, <<"9">>, <<"A", "G">>),
    BodyLine(Rs1, <<"1">>, <<"5">>, <<"A", "G", "\t", "x">>),
    BodyLine(Rs1, <<"1">>, <<"5">>, <<"A", "G", "G">>),
    BodyLine(Rs1, <<"9", "9">>, <<"5">>, <<"-", "-">>),
    <<"x", "\n">> }

LinePool == HeaderPool \cup BodyPool

SeqsUpTo(S, n) == UNION {[1..k -> S] : k \in 0..n}

\* The streams open_archive() can return: nothing, or a first line and up to
\* MaxLines more.
Inputs ==
  {<<>>} \cup {<<first>> \o rest : first \in FirstLines, rest \in SeqsUpTo(LinePool, MaxLines)}

(***************************************************************************)
(* State                                                                   *)
(***************************************************************************)
VARIABLES
  input_file,    \* whether self.input_file is set
  file_url,      \* self.file_url, NoUrl when not set
  input,         \* the lines open_archive() yields
  pos,           \* how many of them next() has returned
  next_line,     \* next_line; <<>> is None
  header_lines,  \* header_lines
  output,        \* the text written to output in clean_raw_23andme
  bad_format,    \* bad_format
  sentry,        \* the messages passed to sentry_log, in order
  warnings,      \* the lines passed to logger.warn, in order
  new_hash,      \* new_hash; <<>> is ''
  vcf,           \* the lines written by vcf_from_raw_23andme
  temp_files,    \* self.temp_files
  pc,            \* where the run is
  error,         \* the exception that left create_files, "" when none
  su_url,        \* file_url of the later task that called should_update
  su_files,      \* the files it was called with
  su_result      \* what the call did: "True", "False" or the exception

vars == <<input_file, file_url, input, pos, next_line, header_lines, output,
          bad_format, sentry, warnings, new_hash, vcf, temp_files, pc, error,
          su_url, su_files, su_result>>

cleanVars == <<next_line, header_lines, output, bad_format, sentry, warnings>>

suVars == <<su_url, su_files, su_result>>

Init ==
  /\ input_file \in BOOLEAN
  /\ file_url \in {NoUrl, "http://h/p1"}
  /\ input \in (IF input_file THEN Inputs ELSE {<<>>})
  /\ pos = 0
  /\ next_line = <<>>
  /\ header_lines = <<>>
  /\ output = <<>>
  /\ bad_format = FALSE
  /\ sentry = <<>>
  /\ warnings = <<>>
  /\ new_hash = <<>>
  /\ vcf = <<>>
  /\ temp_files = <<>>
  /\ pc = "create_files"
  /\ error = ""
  /\ su_url = NoUrl
  /\ su_files = <<>>
  /\ su_result = ""

\* An exception leaves create_files.
Raise(exc) == pc' = "raised" /\ error' = exc

(***************************************************************************)
(* create_files and clean_raw_23andme, step by step                        *)
(***************************************************************************)
\* create_files up to the call of clean_raw_23andme.
CreateFilesStart ==
  /\ pc = "create_files"
  /\ IF ~input_file
     THEN /\ Raise("Exception")
          /\ new_hash' = new_hash
     ELSE /\ pc' = "dateline"
          /\ error' = error
          /\ IF file_url # NoUrl
             THEN \E salt \in Salts : new_hash' = HashPw(UrlPath(file_url), salt)
             ELSE new_hash' = <<>>
  /\ UNCHANGED <<input_file, file_url, input, pos, cleanVars, vcf, temp_files, suVars>>

\* dateline = input_file.next() and the date written to output.
ReadDateline ==
  /\ pc = "dateline"
  /\ IF pos >= Len(input)
     THEN /\ Raise("StopIteration")
          /\ UNCHANGED <<pos, output>>
     ELSE LET dateline == input[pos + 1]
          IN /\ pos' = pos + 1
             /\ IF ~DateTimeSearch(dateline)
                THEN /\ pc' = "first_line"
                     /\ UNCHANGED <<error, output>>
                ELSE IF ~StrptimeOk(NormDay(DateTimeString(dateline)))
                THEN /\ Raise("ValueError")
                     /\ UNCHANGED output
                ELSE /\ pc' = "first_line"
                     /\ output' = output \o DatelineOut(dateline)
                     /\ UNCHANGED error
  /\ UNCHANGED <<input_file, file_url, input, next_line, header_lines, bad_format,
                 sentry, warnings, new_hash, vcf, temp_files, suVars>>

\* next_line = input_file.next() before the header loop.
ReadFirstLine ==
  /\ pc = "first_line"
  /\ IF pos >= Len(input)
     THEN /\ Raise("StopIteration")
          /\ UNCHANGED <<pos, next_line>>
     ELSE /\ pos' = pos + 1
          /\ next_line' = input[pos + 1]
          /\ pc' = "header"
          /\ UNCHANGED error
  /\ UNCHANGED <<input_file, file_url, input, header_lines, output, bad_format,
                 sentry, warnings, new_hash, vcf, temp_files, suVars>>

\* One turn of the loop over the lines that start with '#'.
HeaderLoop ==
  /\ pc = "header"
  /\ StartsWith(next_line, <<"#">>)
  /\ header_lines' = header_lines \o next_line
  /\ IF pos >= Len(input)
     THEN /\ Raise("StopIteration")
          /\ UNCHANGED <<pos, next_line>>
     ELSE /\ pos' = pos + 1
          /\ next_line' = input[pos + 1]
          /\ UNCHANGED <<pc, error>>
  /\ UNCHANGED <<input_file, file_url, input, output, bad_format, sentry, warnings,
                 new_hash, vcf, temp_files, suVars>>

\* The header block compared with the two templates, after the loop.
HeaderCheck ==
  /\ pc = "header"
  /\ ~StartsWith(next_line, <<"#">>)
  /\ IF HeaderConforms(header_lines)
     THEN /\ output' = output \o header_lines
          /\ UNCHANGED sentry
     ELSE /\ sentry' = Append(sentry, SentryHeader)
          /\ UNCHANGED output
  /\ bad_format' = FALSE
  /\ pc' = "body"
  /\ UNCHANGED <<input_file, file_url, input, pos, next_line, header_lines, warnings,
                 new_hash, vcf, temp_files, error, suVars>>

\* One turn of the loop over the body lines.
BodyLoop ==
  /\ pc = "body"
  /\ next_line # <<>>
  /\ IF BodyLineMatches(next_line)
     THEN /\ output' = output \o next_line
          /\ UNCHANGED <<bad_format, sentry, warnings>>
     ELSE IF ~bad_format
     THEN /\ bad_format' = TRUE
          /\ sentry' = Append(sentry, SentryBody)
          /\ warnings' = Append(warnings, next_line)
          /\ UNCHANGED output
     ELSE UNCHANGED <<output, bad_format, sentry, warnings>>
  /\ IF pos >= Len(input)
     THEN /\ next_line' = <<>>
          /\ UNCHANGED pos
     ELSE /\ pos' = pos + 1
          /\ next_line' = input[pos + 1]
  /\ UNCHANGED <<input_file, file_url, input, header_lines, new_hash, vcf, temp_files,
                 pc, error, suVars>>

\* After the body loop: the report repeated, and output returned.
CleanReturn ==
  /\ pc = "body"
  /\ next_line = <<>>
  /\ sentry' = IF bad_format THEN Append(sentry, SentryBody) ELSE sentry
  /\ pc' = "vcf"
  /\ UNCHANGED <<input_file, file_url, input, pos, next_line, header_lines, output,
                 bad_format, warnings, new_hash, vcf, temp_files, error, suVars>>

\* vcf_23andme = vcf_from_raw_23andme(raw_23andme)
VcfFromRaw ==
  /\ pc = "vcf"
  /\ IF \E i \in 1..Len(Lines(output)) : VcfRaises(Lines(output)[i])
     THEN /\ Raise("IndexError")
          /\ UNCHANGED vcf
     ELSE /\ vcf' = vcf_from_raw_23andme(output)
          /\ pc' = "save_raw"
          /\ UNCHANGED error
  /\ UNCHANGED <<input_file, file_url, input, pos, cleanVars, new_hash, temp_files, suVars>>

\* The original-format file written and appended to temp_files.
SaveRaw ==
  /\ pc = "save_raw"
  /\ temp_files' = Append(temp_files, RawArtifact(new_hash))
  /\ pc' = "save_vcf"
  /\ UNCHANGED <<input_file, file_url, input, pos, cleanVars, new_hash, vcf, error, suVars>>

\* The VCF file written and appended to temp_files.
SaveVcf ==
  /\ pc = "save_vcf"
  /\ temp_files' = Append(temp_files, VcfArtifact(new_hash))
  /\ pc' = "done"
  /\ UNCHANGED <<input_file, file_url, input, pos, cleanVars, new_hash, vcf, error, suVars>>

(***************************************************************************)
(* should_update of a later task                                           *)
(***************************************************************************)
\* The files a later task can be asked about: none, the ones this run made,
\* and those with or instead of a file that records no orig_file_hash.
FilesArgs ==
  {<<>>, temp_files, <<UnhashedArtifact>>, temp_files \o <<UnhashedArtifact>>,
   <<UnhashedArtifact>> \o temp_files}

\* A later task, whose file_url is url, calls should_update(files).  It is a
\* new instance: the stream, the buffers and the reports of the run that made
\* the files are not part of it.
ShouldUpdate ==
  /\ pc \in {"done", "raised"}
  /\ \E url \in Urls \cup {NoUrl}, files \in FilesArgs :
       /\ su_url' = url
       /\ su_files' = files
       /\ su_result' = should_update(files, url)
  /\ pc' = "checked"
  /\ input' = <<>>
  /\ pos' = 0
  /\ next_line' = <<>>
  /\ header_lines' = <<>>
  /\ output' = <<>>
  /\ bad_format' = FALSE
  /\ sentry' = <<>>
  /\ warnings' = <<>>
  /\ vcf' = <<>>
  /\ UNCHANGED <<input_file, file_url, new_hash, temp_files, error>>

Next ==
  \/ CreateFilesStart
  \/ ReadDateline
  \/ ReadFirstLine
  \/ HeaderLoop
  \/ HeaderCheck
  \/ BodyLoop
  \/ CleanReturn
  \/ VcfFromRaw
  \/ SaveRaw
  \/ SaveVcf
  \/ ShouldUpdate

Spec == Init /\ [][Next]_vars

(***************************************************************************)
(* Properties                                                              *)
(***************************************************************************)
\* clean_raw_23andme has returned.
CleanReturned == pc \in {"vcf", "save_raw", "save_vcf", "done"}

\* The header block has been compared with the templates.
HeaderDone == pc = "body" \/ CleanReturned

\* vcf_from_raw_23andme has returned.
VcfDone == pc \in {"save_raw", "save_vcf", "done"}

\* The place in the input of the first line after the header block.
FirstBody == Cardinality({i \in 1..Len(header_lines) : header_lines[i] = "\n"}) + 2

\* The places in the input of the body lines the body loop has dealt with.
ProcessedBody ==
  IF ~HeaderDone THEN {}
  ELSE LET first == FirstBody
       IN IF pc = "body" /\ next_line # <<>> THEN first..(pos - 1) ELSE first..pos

Count(seq, x) == Cardinality({i \in 1..Len(seq) : seq[i] = x})

\* The text the dateline step wrote for the first line.
DatelineWritten ==
  IF pos >= 1 /\ DateTimeSearch(input[1]) /\ error # "ValueError"
  THEN DatelineOut(input[1])
  ELSE <<>>

AllDigits(s) == s # <<>> /\ \A i \in 1..Len(s) : s[i] \in Digits

\* A line without its terminator.
Chomp(line) ==
  IF Len(line) >= 2 /\ SubSeq(line, Len(line) - 1, Len(line)) = <<"\r", "\n">>
  THEN SubSeq(line, 1, Len(line) - 2)
  ELSE IF line # <<>> /\ line[Len(line)] = "\n"
  THEN SubSeq(line, 1, Len(line) - 1)
  ELSE line

StrictChroms ==
  {<<c>> : c \in Digits \ {"0"}} \cup {<<"1", c>> : c \in Digits}
    \cup {<<"2", c>> : c \in {"0", "1", "2"}}
    \cup {<<"X">>, <<"Y">>, <<"M", "T">>}

\* The strict structural pattern over the whole line: identifier, chromosome,
\* position and a call of one or two characters, and nothing else.
StrictBodyLine(line) ==
  LET data == Split(Chomp(line), "\t")
  IN /\ Len(data) = 4
     /\ \/ StartsWith(data[1], <<"r", "s">>) /\ AllDigits(SubSeq(data[1], 3, Len(data[1])))
        \/ StartsWith(data[1], <<"i">>) /\ AllDigits(SubSeq(data[1], 2, Len(data[1])))
     /\ data[2] \in StrictChroms
     /\ AllDigits(data[3])
     /\ Len(data[4]) \in {1, 2}
     /\ \A i \in 1..Len(data[4]) : data[4][i] \in CallChars

\* C1: over a whole run of clean_raw_23andme, sentry_log receives the 'body did
\* not conform' report exactly once when one or more body lines fail the
\* pattern, and never when none does.
C1_BodyReportedOnce ==
  CleanReturned =>
    Count(sentry, SentryBody) =
      (IF \E i \in ProcessedBody : ~BodyLineMatches(input[i]) THEN 1 ELSE 0)

\* C2 as stated: the accumulated header block is in the cleaned output whether
\* or not it matches a template.
C2_HeaderAlwaysWritten ==
  HeaderDone =>
    /\ Len(output) >= Len(DatelineWritten) + Len(header_lines)
    /\ SubSeq(output, Len(DatelineWritten) + 1,
              Len(DatelineWritten) + Len(header_lines)) = header_lines

\* The header block reads, line by line, as one of the two templates.
C2_TemplateMatch ==
  SplitLines(header_lines) \in {SplitLines(header_v1), SplitLines(header_v2)}

\* C2, amended: once the header block has ended, it is in the cleaned output,
\* unmodified and right after the dateline, if it matches one of the two
\* templates, and no report is made; if it matches neither, none of its lines
\* is in the cleaned output and exactly one header report is made.
C2_HeaderWrittenIffConforms ==
  HeaderDone =>
    LET dateline == DatelineWritten
        cleaned == Lines(output)
    IN IF C2_TemplateMatch
       THEN /\ Len(output) >= Len(dateline) + Len(header_lines)
            /\ SubSeq(output, Len(dateline) + 1,
                      Len(dateline) + Len(header_lines)) = header_lines
            /\ Count(sentry, SentryHeader) = 0
       ELSE /\ \A i \in 1..Len(cleaned) :
                 StartsWith(cleaned[i], <<"#">>) => i = 1 /\ cleaned[i] = dateline
            /\ Count(sentry, SentryHeader) = 1

\* A run that read a header block matching no template and went on to the end.
C2_Witness ==
  /\ pc = "done"
  /\ header_lines # <<>>
  /\ ~C2_TemplateMatch
  /\ output # <<>>

\* C3: with an input source, create_files raises nothing, whatever the stream.
C3_NoRaiseWithInput == input_file => error = ""

\* C4: every body line of the cleaned output conforms to the strict pattern
\* over the whole line.
C4_CleanedBodyStrict ==
  LET cleaned == Lines(output)
  IN \A i \in 1..Len(cleaned) :
       ~StartsWith(cleaned[i], <<"#">>) => StrictBodyLine(cleaned[i])

\* Every file records a fingerprint, and the fingerprint of the current source
\* location's path, salted with the stored one, equals the stored one.
C5_AllMatch ==
  /\ su_files # <<>>
  /\ su_url # NoUrl
  /\ \A i \in 1..Len(su_files) :
       /\ "orig_file_hash" \in DOMAIN su_files[i].metadata
       /\ SaltValid(su_files[i].metadata.orig_file_hash)
       /\ HashPw(UrlPath(su_url), su_files[i].metadata.orig_file_hash)
            = su_files[i].metadata.orig_file_hash

\* C5: should_update returns False if and only if there are files, each records
\* a fingerprint and each fingerprint matches the current source location; in
\* every other case it returns True.
C5_ShouldUpdateIff ==
  pc = "checked" => su_result = (IF C5_AllMatch THEN "False" ELSE "True")

\* The lines of the cleaned output that are not comment lines.
NotComment(line) == ~StartsWith(line, <<"#">>)

CleanedBody == SelectSeq(Lines(output), NotComment)

\* The reference table has a row for (chrom, pos) with this base.
TableRow(chrom, position, base) ==
  \E r \in 1..Len(ReferenceRows) :
    /\ ReferenceRows[r][1] = chrom
    /\ ReferenceRows[r][2] = position
    /\ ReferenceRows[r][3] = base

TableHas(chrom, position) ==
  \E r \in 1..Len(ReferenceRows) :
    ReferenceRows[r][1] = chrom /\ ReferenceRows[r][2] = position

\* The places in vcf of the records, as opposed to the header lines.
VcfRecords == {k \in 1..Len(vcf) : vcf[k].src > 0}

\* C6: a body line that matches the structural pattern and whose (chromosome,
\* position) is not in the reference table stays in the cleaned output and has
\* no VCF record; every VCF record comes from a line whose (chromosome,
\* position) is in the table, and its REF field is the table's base.
C6_RecordOnlyWithReference ==
  LET cleaned == Lines(output)
  IN /\ \A i \in ProcessedBody :
          StrictBodyLine(input[i]) => InSeq(cleaned, input[i])
     /\ VcfDone =>
          /\ \A k \in VcfRecords :
               LET data == LineData(cleaned[vcf[k].src])
               IN TableRow(data[2], data[3], vcf[k].fields[4])
          /\ \A j \in 1..Len(cleaned) :
               (/\ NotComment(cleaned[j])
                /\ ~TableHas(LineData(cleaned[j])[2], LineData(cleaned[j])[3]))
                 => \A k \in VcfRecords : vcf[k].src # j

\* A finished run with a called, well-formed body line that has no reference
\* entry, next to a line that has a VCF record.
C6_Witness ==
  /\ pc = "done"
  /\ VcfRecords # {}
  /\ \E i \in ProcessedBody :
       /\ StrictBodyLine(input[i])
       /\ CalledBases(LineData(input[i])[4])
       /\ ~TableHas(LineData(input[i])[2], LineData(input[i])[3])
       /\ InSeq(Lines(output), input[i])

\* The alt list and the genotype indices read back from a record's fields.
C7_Alt(fields) == IF fields[5] = Dot THEN <<>> ELSE Split(fields[5], ",")

C7_Indices(fields) == Split(fields[10], "/")

C7_FirstAt(call, x) ==
  CHOOSE i \in 1..Len(call) : <<call[i]>> = x /\ \A j \in 1..(i - 1) : <<call[j]>> # x

\* C7: for every record, the alt list is the duplicate-free list, in order of
\* first occurrence, of the call's characters that differ from the reference
\* base; the sample field has one index per character of the call, each within
\* [r] + alt, and reading the indices back through [r] + alt gives the call.
C7_GenotypeEncoding ==
  VcfDone =>
    \A k \in VcfRecords :
      LET call == LineData(Lines(output)[vcf[k].src])[4]
          ref == vcf[k].fields[4]
          alt == C7_Alt(vcf[k].fields)
          idx == C7_Indices(vcf[k].fields)
          all == <<ref>> \o alt
      IN /\ \A a, b \in 1..Len(alt) : a # b => alt[a] # alt[b]
         /\ \A a \in 1..Len(alt) : alt[a] # ref /\ \E i \in 1..Len(call) : <<call[i]>> = alt[a]
         /\ \A i \in 1..Len(call) : <<call[i]>> # ref => InSeq(alt, <<call[i]>>)
         /\ \A a, b \in 1..Len(alt) :
              a < b => C7_FirstAt(call, alt[a]) < C7_FirstAt(call, alt[b])
         /\ Len(idx) = Len(call)
         /\ \A i \in 1..Len(call) :
              /\ Len(idx[i]) = 1
              /\ idx[i][1] \in Digits
              /\ DigitVal(idx[i][1]) \in 0..(Len(all) - 1)
              /\ all[DigitVal(idx[i][1]) + 1] = <<call[i]>>

\* A record of a call with two different alternate alleles, the later in the
\* alphabet first, and one of a call that repeats its alternate allele.
C7_Witness ==
  /\ pc = "done"
  /\ \E k \in VcfRecords :
       /\ vcf[k].fields[5] = <<"T", ",", "G">>
       /\ vcf[k].fields[10] = <<"1", "/", "2">>
  /\ \E k \in VcfRecords :
       /\ vcf[k].fields[5] = <<"G">>
       /\ vcf[k].fields[10] = <<"1", "/", "1">>

\* C8: the body lines of the cleaned output are the accepted input body lines,
\* unchanged and in their order; the VCF records come after the header lines,
\* at most one per body line of the cleaned output, in the order of those lines.
C8_OrderPreserved ==
  /\ HeaderDone =>
       LET first == FirstBody
       IN CleanedBody =
            SelectSeq([n \in 1..Cardinality(ProcessedBody) |-> input[first + n - 1]],
                      BodyLineMatches)
  /\ VcfDone =>
       LET cleaned == Lines(output)
       IN /\ Len(vcf) >= Len(VcfHeader)
          /\ \A k \in 1..Len(vcf) :
               IF k <= Len(VcfHeader)
               THEN vcf[k].src = 0 /\ vcf[k].text = VcfHeader[k]
               ELSE /\ vcf[k].src \in 1..Len(cleaned)
                    /\ NotComment(cleaned[vcf[k].src])
          /\ \A k, l \in VcfRecords : k < l => vcf[k].src < vcf[l].src

\* A finished run with records of two different body lines.
C8_Witness ==
  /\ pc = "done"
  /\ \E k, l \in VcfRecords :
       /\ k < l
       /\ Lines(output)[vcf[k].src] # Lines(output)[vcf[l].src]

\* A date and time in the text s right after position k: weekday, month, day,
\* HH:MM:SS and a year of four digits, the first character of the day taken
\* from dayFirst and the first digit of the year from yearFirst.
C9_DateAt(s, k, dayFirst, yearFirst) ==
  /\ k + 24 <= Len(s)
  /\ LET w == SubSeq(s, k + 1, k + 24)
     IN /\ w[1] \in Upper /\ w[2] \in Lower /\ w[3] \in Lower /\ w[4] = " "
        /\ w[5] \in Upper /\ w[6] \in Lower /\ w[7] \in Lower /\ w[8] = " "
        /\ w[9] \in dayFirst /\ w[10] \in Digits /\ w[11] = " "
        /\ w[12] \in Digits /\ w[13] \in Digits /\ w[14] = ":"
        /\ w[15] \in Digits /\ w[16] \in Digits /\ w[17] = ":"
        /\ w[18] \in Digits /\ w[19] \in Digits /\ w[20] = " "
        /\ w[21] \in yearFirst
        /\ w[22] \in Digits /\ w[23] \in Digits /\ w[24] \in Digits

\* The cleaned output begins with one comment line that carries the date and
\* time found in s right after position k, the day zero-padded.
C9_Carries(s, k) ==
  /\ Len(output) >= Len(DatelinePrefix) + 26
  /\ StartsWith(output, DatelinePrefix)
  /\ LET w == SubSeq(s, k + 1, k + 24)
         x == SubSeq(output, Len(DatelinePrefix) + 1, Len(DatelinePrefix) + 26)
     IN /\ InSeq(WeekdayNames, SubSeq(x, 1, 3))
        /\ SubSeq(x, 4, 8) = SubSeq(w, 4, 8)
        /\ x[9] = (IF w[9] = " " THEN "0" ELSE w[9])
        /\ SubSeq(x, 10, 24) = SubSeq(w, 10, 24)
        /\ SubSeq(x, 25, 26) = <<"\r", "\n">>

\* The first line has been dealt with and clean_raw_23andme goes on.
C9_PastDateline == pos >= 1 /\ pc \notin {"create_files", "dateline", "raised", "checked"}

\* C9 as stated: a first line with a date and time, the day zero-padded or
\* space-padded, gives one comment line with that date and time; any other
\* first line gives nothing.
C9_DatelineZeroOrSpacePadded ==
  C9_PastDateline =>
    IF \E k \in 0..Len(input[1]) : C9_DateAt(input[1], k, {" "} \cup Digits, Digits)
    THEN \E k \in 0..Len(input[1]) :
           C9_DateAt(input[1], k, {" "} \cup Digits, Digits) /\ C9_Carries(input[1], k)
    ELSE ~StartsWith(output, DatelinePrefix)

\* C9, amended: a first line with a date and time whose day is space-padded or
\* has two digits the first of which is not 0, and whose year is 2000 to 2999,
\* gives one comment line with that date and time, the day zero-padded, when
\* clean_raw_23andme goes on; any other first line, one with a zero-padded day
\* 01 to 09 included, gives nothing.  The ValueError that strptime raises on a
\* first line leaves nothing written.
C9_DatelineSpacePaddedOrTwoDigit ==
  /\ C9_PastDateline =>
       IF \E k \in 0..Len(input[1]) :
            C9_DateAt(input[1], k, {" "} \cup (Digits \ {"0"}), {"2"})
       THEN \E k \in 0..Len(input[1]) :
              /\ C9_DateAt(input[1], k, {" "} \cup (Digits \ {"0"}), {"2"})
              /\ C9_Carries(input[1], k)
       ELSE ~StartsWith(output, DatelinePrefix)
  /\ (pc = "raised" /\ error = "ValueError") =>
       /\ output = <<>>
       /\ \E k \in 0..Len(input[1]) :
            C9_DateAt(input[1], k, {" "} \cup (Digits \ {"0"}), {"2"})

\* A finished run whose first line had a space-padded day.
C9_Witness ==
  /\ pc = "done"
  /\ \E k \in 0..Len(input[1]) : C9_DateAt(input[1], k, {" "}, {"2"})
  /\ StartsWith(output, DatelinePrefix)

\* C10: a run without a source location stores the empty fingerprint in both
\* files, and should_update never returns False for files that include one of
\* them, whatever the source location of the task that asks.
C10_LocalOnlyNeverSkipped ==
  /\ (pc = "done" /\ file_url = NoUrl) =>
       /\ Len(temp_files) = 2
       /\ \A i \in 1..2 : temp_files[i].metadata.orig_file_hash = <<>>
  /\ (/\ pc = "checked" /\ file_url = NoUrl
      /\ \E i \in 1..Len(su_files) : InSeq(temp_files, su_files[i]))
       => su_result # "False"

\* should_update asked about the two files of a run without a source location.
C10_Witness ==
  /\ pc = "checked"
  /\ file_url = NoUrl
  /\ Len(temp_files) = 2
  /\ su_files = temp_files
  /\ su_result = "True"

====
